---- MODULE Spec2Model ----
(***************************************************************************)
(* A model of icecast-exporter (src/main.go): the poll loop started by     *)
(* updateListeners, the decoding of the Icecast status document, the label *)
(* functions and the gauge vector read by the scrape handler.              *)
(*                                                                         *)
(* Strings are sequences of one-character strings, so that the label       *)
(* functions are computed character by character as the Go code does.      *)
(* A JSON value is a record tagged by its kind:                            *)
(*   [t |-> "null"], [t |-> "int", n |-> 3], [t |-> "frac"] (a number that *)
(*   is no Go int), [t |-> "str", s |-> <<...>>], [t |-> "obj", f |-> m]   *)
(*   (m maps member names to JSON values), [t |-> "arr", e |-> <<...>>].   *)
(* Member names are matched exactly; the inputs use lower-case names only. *)
(***************************************************************************)
EXTENDS Integers, Sequences, FiniteSets, TLC

VARIABLES
    serverName,   \* flag -filter (main.go:134), fixed at start
    wait,         \* flag -interval (main.go:132), fixed at start
    legacyLabel,  \* flag -legacy-label (main.go:135), fixed at start
    clock,        \* flag -clock (main.go:133), fixed at start
    pc,           \* position of the poll goroutine (main.go:101-125)
    fetched,      \* what http.Get returned in the current cycle (main.go:73)
    resp,         \* resp.Icestats.Source being ranged over (main.go:108)
    i,            \* index of the record the range loop is at (1-based)
    listeners,    \* the GaugeVec: (server_name, stream_url) -> value (main.go:67)
    logged,       \* number of log lines of the current cycle (main.go:106)
    spawned,      \* listener counts handed to "go publishVClock" this cycle
    pushes,       \* how far each of these goroutines has come
    repeatOf,     \* set when a fetch returns what the previous one returned
    slept,        \* seconds passed to the latest time.Sleep (main.go:123)
    before,       \* what the key being written held when its write began
    scraped,      \* what the latest scrape of the metrics endpoint read
    data,         \* input of Source.UnmarshalJSON (decoder specification)
    out,          \* its result (decoder specification)
    text,         \* input of the label functions (label specification)
    labels        \* their results (label specification)

vars == <<serverName, wait, legacyLabel, clock, pc, fetched, resp, i, listeners,
          logged, spawned, pushes, repeatOf, slept, before, scraped, data, out,
          text, labels>>

(***************************************************************************)
(* Bounds of the model.                                                    *)
(***************************************************************************)
MaxStreams == 2     \* longest source array of the poll loop's inputs
MaxArrayLen == 2    \* longest source array of the decoder's inputs
MaxLabelLen == 3    \* longest string given to the label functions

(***************************************************************************)
(* Strings.                                                                *)
(***************************************************************************)
Empty == <<>>
NameDot == <<"a", ".", "b">>
NameUnd == <<"a", "_", "b">>
UrlMount == <<"h", "/", "s">>

Letters == {"a", "b", "h", "s"}
Digits == {"1", "2"}

\* strings.LastIndex(name, sep) for a one-character sep: 0-based, -1 if absent
LastIndex(name, sep) ==
    LET hits == {p \in 1..Len(name) : name[p] = sep}
    IN  IF hits = {} THEN -1
        ELSE (CHOOSE p \in hits : \A q \in hits : q <= p) - 1

\* name[k:] of Go, k 0-based
SliceFrom(name, k) == SubSeq(name, k + 1, Len(name))

urlToLabelKeepSlash(name) ==
    LET k == LastIndex(name, "/")
    IN  IF k >= 0 THEN SliceFrom(name, k) ELSE name

urlToLabel(name) ==
    LET k == LastIndex(name, "/")
    IN  IF k >= 0 THEN SliceFrom(SliceFrom(name, k), 1) ELSE name

\* strings.ReplaceAll(name, old, new) for one-character old and new
ReplaceAll(name, old, new) ==
    [p \in 1..Len(name) |-> IF name[p] = old THEN new ELSE name[p]]

\* the character classes of the regexp [a-zA-Z_:][a-zA-Z0-9_:]*
IsFirstOrDigit(c) == c \in Letters \cup Digits \cup {"_", ":"}

IsFirst(c) == c \in Letters \cup {"_", ":"}

IsRestNoDigit(c) == c \in Letters \cup {"_", ":"}

IsRest(c) == c \in Letters \cup Digits \cup {"_", ":"}

\* end (inclusive) of the longest match that starts at p
RECURSIVE MatchEnd(_, _)
MatchEnd(name, p) ==
    IF p < Len(name) /\ IsRest(name[p + 1]) THEN MatchEnd(name, p + 1) ELSE p

\* strings.Join(re.FindAllString(name[p:], -1), ""): leftmost, non-overlapping
RECURSIVE JoinMatches(_, _)
JoinMatches(name, p) ==
    IF p > Len(name) THEN <<>>
    ELSE IF IsFirst(name[p])
         THEN LET e == MatchEnd(name, p)
              IN  SubSeq(name, p, e) \o JoinMatches(name, e + 1)
         ELSE JoinMatches(name, p + 1)

makeLegacyLabel(name) ==
    JoinMatches(ReplaceAll(ReplaceAll(name, ".", "_"), " ", "_"), 1)

(***************************************************************************)
(* JSON values and encoding/json's decoding into Stream and []Stream.      *)
(***************************************************************************)
JNull == [t |-> "null"]
JInt(n) == [t |-> "int", n |-> n]
JFrac == [t |-> "frac"]
JStr(s) == [t |-> "str", s |-> s]
JObj(f) == [t |-> "obj", f |-> f]
JArr(e) == [t |-> "arr", e |-> e]

\* type Stream (main.go:29-33) and its zero value
Stream(l, n, u) == [Listeners |-> l, ServerName |-> n, ListenURL |-> u]
ZeroStream == Stream(0, Empty, Empty)

Has(f, k) == k \in DOMAIN f

\* one struct field of kind t: an absent member or a null leaves the zero
\* value, a value of the field's kind sets it, any other value is an
\* UnmarshalTypeError
FieldErr(f, k, t) == Has(f, k) /\ f[k].t \notin {"null", t}
FieldInt(f, k) == IF Has(f, k) /\ f[k].t = "int" THEN f[k].n ELSE 0
FieldStr(f, k) == IF Has(f, k) /\ f[k].t = "str" THEN f[k].s ELSE Empty

\* json.Unmarshal(data, &singleStream)
UnmarshalStream(v) ==
    IF v.t = "null" THEN [err |-> FALSE, v |-> ZeroStream]
    ELSE IF v.t = "obj"
         THEN [err |-> \/ FieldErr(v.f, "listeners", "int")
                       \/ FieldErr(v.f, "server_name", "str")
                       \/ FieldErr(v.f, "listenurl", "str"),
               v |-> Stream(FieldInt(v.f, "listeners"),
                            FieldStr(v.f, "server_name"),
                            FieldStr(v.f, "listenurl"))]
         ELSE [err |-> TRUE, v |-> ZeroStream]

\* json.Unmarshal(data, &multiStream)
UnmarshalStreams(v) ==
    IF v.t = "null" THEN [err |-> FALSE, v |-> <<>>]
    ELSE IF v.t = "arr"
         THEN [err |-> \E p \in 1..Len(v.e) : UnmarshalStream(v.e[p]).err,
               v |-> [p \in 1..Len(v.e) |-> UnmarshalStream(v.e[p]).v]]
         ELSE [err |-> TRUE, v |-> <<>>]

SourceUnmarshalJSONNoWrap(sourcePtr, v) ==
    LET multi == UnmarshalStreams(v)
        single == UnmarshalStream(v)
    IN  IF ~multi.err THEN [err |-> FALSE, source |-> multi.v]
        ELSE IF ~single.err THEN [err |-> FALSE, source |-> sourcePtr]
        ELSE [err |-> TRUE, source |-> sourcePtr]

\* (*Source).UnmarshalJSON: the array first, then the single object; on
\* failure *sourcePtr keeps the value it had
SourceUnmarshalJSON(sourcePtr, v) ==
    LET multi == UnmarshalStreams(v)
        single == UnmarshalStream(v)
    IN  IF ~multi.err THEN [err |-> FALSE, source |-> multi.v]
        ELSE IF ~single.err THEN [err |-> FALSE, source |-> <<single.v>>]
        ELSE [err |-> TRUE, source |-> sourcePtr]

(***************************************************************************)
(* LoadIcecastStatus (main.go:72-85).                                      *)
(***************************************************************************)
\* a body that is no JSON text (or is empty): Decode reports a syntax error
Garbage == [t |-> "garbage"]

NoMembers == [k \in {} |-> JNull]

\* new(StatusRoot), and the nil *StatusRoot
NewStatusRoot == [nil |-> FALSE, Icestats |-> [Source |-> <<>>]]
NilStatusRoot == [nil |-> TRUE, Icestats |-> [Source |-> <<>>]]

\* json.NewDecoder(resp.Body).Decode(&stats), stats pointing at a new
\* StatusRoot: a JSON null sets the pointer to nil; an object fills the
\* fields it names; anything else leaves the new StatusRoot as it is
DecodeStatusRoot(body) ==
    IF body.t = "null" THEN NilStatusRoot
    ELSE IF /\ body.t = "obj"
            /\ Has(body.f, "icestats")
            /\ body.f["icestats"].t = "obj"
            /\ Has(body.f["icestats"].f, "source")
         THEN [nil |-> FALSE,
               Icestats |-> [Source |->
                   SourceUnmarshalJSON(<<>>, body.f["icestats"].f["source"]).source]]
         ELSE NewStatusRoot

\* the error that Decode returns: a syntax error, a value of the wrong kind
\* for StatusRoot or Icestats, or the error of Source.UnmarshalJSON
DecodeError(body) ==
    IF body.t = "null" THEN FALSE
    ELSE IF body.t # "obj" THEN TRUE
    ELSE IF ~Has(body.f, "icestats") \/ body.f["icestats"].t = "null" THEN FALSE
    ELSE IF body.f["icestats"].t # "obj" THEN TRUE
    ELSE IF ~Has(body.f["icestats"].f, "source") THEN FALSE
    ELSE SourceUnmarshalJSON(<<>>, body.f["icestats"].f["source"]).err

\* the error of http.Get is the only error returned; Decode's is dropped
LoadIcecastStatus(o) ==
    IF o.err THEN [err |-> TRUE, stats |-> NilStatusRoot]
    ELSE [err |-> FALSE, stats |-> DecodeStatusRoot(o.body)]

(***************************************************************************)
(* The gauge vector (main.go:67-70) and the two calls of main.go:116.      *)
(***************************************************************************)
\* float64(n): exact for the listener counts of the model (|n| < 2^53)
Float64(n) == n

NoGauges == [k \in {} |-> 0]

\* listeners.WithLabelValues(labelServer, labelURL): the gauge of the key,
\* created with value 0 when the key is new
WithLabelValuesFresh(vec, key) ==
    [k \in DOMAIN vec \cup {key} |-> IF k = key THEN 0 ELSE vec[k]]

WithLabelValues(vec, key) ==
    [k \in DOMAIN vec \cup {key} |-> IF k \in DOMAIN vec THEN vec[k] ELSE 0]

\* gauge.Set(val): an atomic store into the gauge of the key
GaugeAdd(vec, key, val) == [vec EXCEPT ![key] = @ + val]

GaugeSetOnly(vec, key, val) == [k \in {key} |-> val]

GaugeSet(vec, key, val) == [vec EXCEPT ![key] = val]

\* what a scrape reads for a key
Absent == [present |-> FALSE, v |-> 0]
Present(v) == [present |-> TRUE, v |-> v]
ReadGauge(vec, key) == IF key \in DOMAIN vec THEN Present(vec[key]) ELSE Absent

(***************************************************************************)
(* The body of the range loop (main.go:108-120).                           *)
(***************************************************************************)
\* the filter of main.go:109
PassesFilterLegacy(s, filter) ==
    makeLegacyLabel(s.ServerName) = makeLegacyLabel(filter) \/ filter = Empty

PassesFilter(s, filter) == s.ServerName = filter \/ filter = Empty

\* labelServer and labelURL of main.go:110-115
MetricKey(s, legacy) ==
    IF legacy
    THEN <<makeLegacyLabel(s.ServerName), makeLegacyLabel(urlToLabel(s.ListenURL))>>
    ELSE <<s.ServerName, urlToLabel(s.ListenURL)>>

(***************************************************************************)
(* The inputs of the poll loop.                                            *)
(***************************************************************************)
SeqUpTo(S, n) == UNION {[1..k -> S] : k \in 0..n}

StreamObj(l, n, u) ==
    JObj([listeners |-> JInt(l), server_name |-> JStr(n), listenurl |-> JStr(u)])

Names == {NameDot, NameUnd}
Filters == {Empty, NameDot}
Intervals == {15, 30}
Counts == {1, 2}

PollObjs == {StreamObj(l, n, UrlMount) : l \in Counts, n \in Names}

\* single objects, arrays, and values of neither shape
PollSources ==
    PollObjs
    \cup {JArr(e) : e \in SeqUpTo(PollObjs, MaxStreams)}
    \cup {JNull, JStr(NameDot), JObj(NoMembers),
          JObj([listeners |-> JStr(NameDot), server_name |-> JStr(NameDot),
                listenurl |-> JStr(UrlMount)]),
          JArr(<<StreamObj(1, NameDot, UrlMount), JInt(1)>>)}

StatusDoc(src) == JObj([icestats |-> JObj([source |-> src])])

PollBodies ==
    {StatusDoc(src) : src \in PollSources}
    \cup {Garbage, JNull, JInt(1), JObj(NoMembers), JObj([icestats |-> JNull])}

Response(code, body) == [err |-> FALSE, status |-> code, body |-> body]
TransportFailure == [err |-> TRUE, status |-> 0, body |-> Garbage]

\* what http.Get can return: an error, a 200 with any body, or a response
\* with another status code whose body is an error page or a status document
FetchOutcomes ==
    {TransportFailure}
    \cup {Response(200, b) : b \in PollBodies}
    \cup {Response(404, b) :
            b \in {Garbage, StatusDoc(StreamObj(1, NameDot, UrlMount))}}

NoFetch == [err |-> FALSE, status |-> 0, body |-> Garbage]

(***************************************************************************)
(* The poll goroutine of updateListeners (main.go:100-126).                *)
(***************************************************************************)
SleepSeconds == 15

NoScrape == [key |-> <<Empty, Empty>>, read |-> Absent, during |-> FALSE]
NoData == Garbage
NoOut == [err |-> FALSE, source |-> <<>>]

pollVars == <<pc, fetched, resp, i, listeners, logged, spawned, slept, before>>
flagVars == <<serverName, wait, legacyLabel, clock>>
pushVars == <<pushes, repeatOf>>

\* no earlier fetch is being repeated
NoRepeat == [on |-> FALSE, reg |-> NoGauges]

\* the go statement of main.go:117 returns at once: the loop goes on without
\* waiting for the goroutines it has started
GoReturnedWhenDone(ps) == \A k \in 1..Len(ps) : ps[k] # "running"

GoReturned(ps) == TRUE
decoderVars == <<data, out>>
labelVars == <<text, labels>>

NoLabels == [key |-> <<Empty, Empty>>, legacy |-> Empty, twice |-> Empty]

Init ==
    /\ serverName \in Filters
    /\ wait \in Intervals
    /\ legacyLabel \in BOOLEAN
    /\ clock = Empty
    /\ pc = "fetch"
    /\ fetched = NoFetch
    /\ resp = <<>>
    /\ i = 1
    /\ listeners = NoGauges
    /\ logged = 0
    /\ spawned = <<>>
    /\ pushes = <<>>
    /\ repeatOf = NoRepeat
    /\ slept = 0
    /\ before = Absent
    /\ scraped = NoScrape
    /\ data = NoData
    /\ out = NoOut
    /\ text = Empty
    /\ labels = NoLabels

\* main.go:103-107: the fetch, the log line of a failed fetch, and the
\* evaluation of resp.Icestats.Source, which panics on a nil resp
FetchFrom(outcomes) ==
    /\ pc = "fetch"
    /\ \E o \in outcomes :
         LET r == LoadIcecastStatus(o)
         IN  /\ fetched' = o
             /\ logged' = IF r.err THEN 1 ELSE 0
             /\ pc' = IF r.err THEN "sleep"
                      ELSE IF r.stats.nil THEN "panic" ELSE "range"
             /\ resp' = IF r.err \/ r.stats.nil THEN <<>>
                        ELSE r.stats.Icestats.Source
    /\ i' = 1
    /\ spawned' = <<>>
    /\ pushes' = <<>>
    /\ UNCHANGED <<listeners, slept, before, scraped>>
    /\ UNCHANGED <<flagVars, decoderVars, labelVars>>

\* the fetch of a cycle: http.Get returns any of the outcomes
Fetch ==
    /\ FetchFrom(FetchOutcomes)
    /\ repeatOf' = NoRepeat

\* main.go:109: a record the filter rejects
FilterSkip ==
    /\ pc = "range"
    /\ GoReturned(pushes)
    /\ i <= Len(resp)
    /\ ~PassesFilter(resp[i], serverName)
    /\ i' = i + 1
    /\ UNCHANGED <<pc, fetched, resp, listeners, logged, spawned, slept, before, scraped>>
    /\ UNCHANGED <<flagVars, decoderVars, labelVars, pushVars>>

\* main.go:110-116: the labels and listeners.WithLabelValues(...)
GetGauge ==
    /\ pc = "range"
    /\ GoReturned(pushes)
    /\ i <= Len(resp)
    /\ PassesFilter(resp[i], serverName)
    /\ before' = ReadGauge(listeners, MetricKey(resp[i], legacyLabel))
    /\ listeners' = WithLabelValues(listeners, MetricKey(resp[i], legacyLabel))
    /\ pc' = "set"
    /\ UNCHANGED <<fetched, resp, i, logged, spawned, slept, scraped>>
    /\ UNCHANGED <<flagVars, decoderVars, labelVars, pushVars>>

\* main.go:116-117: .Set(float64(s.Listeners)) and "go publishVClock"
SetGauge ==
    /\ pc = "set"
    /\ listeners' = GaugeSet(listeners, MetricKey(resp[i], legacyLabel),
                             Float64(resp[i].Listeners))
    /\ spawned' = Append(spawned, resp[i].Listeners)
    /\ pushes' = Append(pushes, "running")
    /\ i' = i + 1
    /\ pc' = "range"
    /\ UNCHANGED <<fetched, resp, logged, slept, before, scraped, repeatOf>>
    /\ UNCHANGED <<flagVars, decoderVars, labelVars>>

RangeDoneEarly ==
    /\ pc = "range"
    /\ pc' = "sleep"
    /\ UNCHANGED <<fetched, resp, i, listeners, logged, spawned, slept, before, scraped>>
    /\ UNCHANGED <<flagVars, decoderVars, labelVars, pushVars>>

\* main.go:120: the range loop is over
RangeDone ==
    /\ pc = "range"
    /\ GoReturned(pushes)
    /\ i > Len(resp)
    /\ pc' = "sleep"
    /\ UNCHANGED <<fetched, resp, i, listeners, logged, spawned, slept, before, scraped>>
    /\ UNCHANGED <<flagVars, decoderVars, labelVars, pushVars>>

\* main.go:123: time.Sleep begins
SleepStart ==
    /\ pc = "sleep"
    /\ slept' = SleepSeconds
    /\ pc' = "idle"
    /\ UNCHANGED <<fetched, resp, i, listeners, logged, spawned, before, scraped>>
    /\ UNCHANGED <<flagVars, decoderVars, labelVars, pushVars>>

\* main.go:123-124: time.Sleep returns and the loop starts over
SleepEnd ==
    /\ pc = "idle"
    /\ pc' = "fetch"
    /\ UNCHANGED <<fetched, resp, i, listeners, logged, spawned, slept, before, scraped>>
    /\ UNCHANGED <<flagVars, decoderVars, labelVars, pushVars>>

Next ==
    \/ Fetch
    \/ FilterSkip
    \/ GetGauge
    \/ SetGauge
    \/ RangeDone
    \/ SleepStart
    \/ SleepEnd

Spec == Init /\ [][Next]_vars

(***************************************************************************)
(* What the specification calls a status document: a stream object carries *)
(* listeners (integer), server_name (string) and listenurl (string); the   *)
(* source is one stream object or an array of stream objects.              *)
(***************************************************************************)
IsStreamObject(v) ==
    /\ v.t = "obj"
    /\ Has(v.f, "listeners") /\ v.f["listeners"].t = "int"
    /\ Has(v.f, "server_name") /\ v.f["server_name"].t = "str"
    /\ Has(v.f, "listenurl") /\ v.f["listenurl"].t = "str"

IsStreamArray(v) ==
    v.t = "arr" /\ \A p \in 1..Len(v.e) : IsStreamObject(v.e[p])

IsKnownShape(v) == IsStreamObject(v) \/ IsStreamArray(v)

IsStatusDocument(body) ==
    /\ body.t = "obj"
    /\ Has(body.f, "icestats")
    /\ body.f["icestats"].t = "obj"
    /\ Has(body.f["icestats"].f, "source")
    /\ IsKnownShape(body.f["icestats"].f["source"])

\* the record a stream object stands for
RecordOf(v) == Stream(v.f["listeners"].n, v.f["server_name"].s, v.f["listenurl"].s)

\* a poll that failed: no response, or a body of neither shape
FailedPoll(o) == o.err \/ ~IsStatusDocument(o.body)

\* a response with a status code other than success
NonSuccess(o) == ~o.err /\ o.status # 200

InCycle == pc \in {"range", "set"}
CycleOver == pc \in {"sleep", "idle"}

\* the records of the snapshot that the filter lets through, by raw name
Passing(p) == serverName = Empty \/ resp[p].ServerName = serverName

\* the last record of the snapshot that passes and has the key of record p
LastOfKey(p) ==
    CHOOSE q \in p..Len(resp) :
        /\ Passing(q)
        /\ MetricKey(resp[q], legacyLabel) = MetricKey(resp[p], legacyLabel)
        /\ \A r \in (q + 1)..Len(resp) :
             ~(Passing(r) /\ MetricKey(resp[r], legacyLabel)
                               = MetricKey(resp[p], legacyLabel))

(***************************************************************************)
(* The claims about the poll loop.                                         *)
(***************************************************************************)
\* C1: a failed poll (transport error, or a body of neither status shape)
\* leaves the gauge vector as it was: no step of such a cycle changes it.
C1_FailedPollKeepsRegistry ==
    [][FailedPoll(fetched') => listeners' = listeners]_vars

\* C2: no fetch outcome crashes the poll loop: the goroutine never panics.
C2_NoPollFailureCrashes == pc # "panic"

\* C3: after a successful cycle every key produced by a passing record holds
\* the listener count of the last passing record with that key.
C3_LastWriteWins ==
    CycleOver =>
        \A p \in 1..Len(resp) :
            Passing(p) =>
                LET key == MetricKey(resp[p], legacyLabel)
                IN  /\ key \in DOMAIN listeners
                    /\ listeners[key] = resp[LastOfKey(p)].Listeners

\* C3 witness: a finished cycle with two passing records of one key and
\* different counts, the later one's count being the one stored.
C3_Witness ==
    /\ CycleOver
    /\ \E p, q \in 1..Len(resp) :
         /\ p < q
         /\ Passing(p) /\ Passing(q)
         /\ MetricKey(resp[p], legacyLabel) = MetricKey(resp[q], legacyLabel)
         /\ resp[p].ServerName # resp[q].ServerName
         /\ resp[p].Listeners > resp[q].Listeners
         /\ listeners[MetricKey(resp[q], legacyLabel)] = resp[q].Listeners

\* C4: the Idle phase lasts the configured interval: the duration the loop
\* sleeps for is the value of the -interval flag.
C4_IdleLastsInterval == pc = "idle" => slept = wait

\* C5: the filter is exact equality on the raw server name: the step that
\* leaves a record behind has written its gauge when the filter is empty or
\* equals the record's name, and has left the gauge vector alone otherwise;
\* the gauge vector changes only while such a passing record is handled.
C5_FilterIsExactEquality ==
    [][/\ (InCycle /\ i' = i + 1) =>
            IF Passing(i)
            THEN /\ MetricKey(resp[i], legacyLabel) \in DOMAIN listeners'
                 /\ listeners'[MetricKey(resp[i], legacyLabel)] = resp[i].Listeners
            ELSE listeners' = listeners /\ pc = "range"
       /\ listeners' # listeners => (InCycle /\ i <= Len(resp) /\ Passing(i))
      ]_vars

\* C5 witness: under a non-empty filter, a record whose name differs from
\* the filter only before the legacy transform has been skipped, and a
\* record of the filter's name has been written.
C5_Witness ==
    /\ pc = "range" /\ i = 3
    /\ serverName # Empty /\ legacyLabel
    /\ resp[1].ServerName = serverName
    /\ resp[2].ServerName # serverName
    /\ makeLegacyLabel(resp[2].ServerName) = makeLegacyLabel(serverName)
    /\ resp[2].Listeners # resp[1].Listeners
    /\ listeners[MetricKey(resp[1], legacyLabel)] = resp[1].Listeners

\* C6: no gauge is ever deleted, and a gauge that the step does not write
\* keeps its value.
C6_NoEntryDeleted ==
    [][/\ DOMAIN listeners \subseteq DOMAIN listeners'
       /\ \A k \in DOMAIN listeners :
            listeners'[k] # listeners[k] =>
                /\ InCycle /\ i <= Len(resp) /\ Passing(i)
                /\ k = MetricKey(resp[i], legacyLabel)
      ]_vars

\* C6 witness: a finished cycle whose snapshot wrote one key while another
\* key, absent from the snapshot, still holds a count of an earlier cycle.
C6_Witness ==
    /\ CycleOver /\ Len(resp) > 0
    /\ \E k \in DOMAIN listeners :
         /\ listeners[k] > 0
         /\ \A p \in 1..Len(resp) : MetricKey(resp[p], legacyLabel) # k
    /\ \E p \in 1..Len(resp) : Passing(p)

\* C8: a response with a non-success status code is a transport error: no
\* step of its cycle creates or changes a gauge, whatever the body holds.
C8_NonSuccessKeepsRegistry ==
    [][NonSuccess(fetched') => listeners' = listeners]_vars

\* C14: cycles do not overlap and the writes of a cycle precede its Idle
\* phase: the gauge vector changes only inside the range loop, the loop
\* starts only from a fetch, Idle begins only when every record of the
\* snapshot has been handled, and a fetch starts only when Idle has ended.
C14_CyclesDoNotOverlap ==
    /\ [](CycleOver => i = Len(resp) + 1)
    /\ [][/\ listeners' # listeners => (InCycle /\ pc' \in {"range", "set"})
          /\ (pc' = "range" /\ ~InCycle) => pc = "fetch"
          /\ (pc' = "sleep" /\ pc # "sleep") =>
                (pc = "fetch" \/ (pc = "range" /\ i > Len(resp)))
          /\ (pc' = "idle" /\ pc # "idle") => pc = "sleep"
          /\ (pc' = "fetch" /\ pc # "fetch") => pc = "idle"
         ]_vars

\* C14 witness: a fetch about to start after a cycle that wrote two records
\* and slept.
C14_Witness ==
    /\ pc = "fetch"
    /\ Len(resp) = 2 /\ i = 3
    /\ Len(spawned) = 2
    /\ slept = SleepSeconds
    /\ MetricKey(resp[2], legacyLabel) \in DOMAIN listeners
    /\ listeners[MetricKey(resp[2], legacyLabel)] = resp[2].Listeners

\* C16: the poll loop has no terminal state: in every reachable state the
\* goroutine has a next step to take.
C16_NoTerminalState == ENABLED Next

\* the listener counts of the passing records of the snapshot, in order
RECURSIVE PassingCounts(_)
PassingCounts(p) ==
    IF p > Len(resp) THEN <<>>
    ELSE IF Passing(p) THEN <<resp[p].Listeners>> \o PassingCounts(p + 1)
         ELSE PassingCounts(p + 1)

\* C17: a successful cycle dispatches exactly one push per passing record,
\* with the record's own listener count; a failed cycle (transport error,
\* non-success response, body of neither shape) dispatches none.
C17_OnePushPerPassingRecord ==
    CycleOver =>
        IF FailedPoll(fetched) \/ NonSuccess(fetched)
        THEN spawned = <<>>
        ELSE spawned = PassingCounts(1)

\* C18: every failed poll is logged before Idle: a cycle whose fetch ended
\* in a transport error, or whose body failed to decode, has a log line.
C18_FailedPollIsLogged ==
    (CycleOver /\ (fetched.err \/ DecodeError(fetched.body))) => logged > 0

(***************************************************************************)
(* The decoder on its own: Source.UnmarshalJSON applied to one JSON value. *)
(***************************************************************************)
MemberNames == {"listeners", "server_name", "listenurl"}

\* the values a member of the inputs takes: of the field's kind, null, or
\* of another kind
MemberValues(k) ==
    IF k = "listeners"
    THEN {JInt(l) : l \in Counts} \cup {JNull, JFrac, JStr(NameDot)}
    ELSE IF k = "server_name"
         THEN {JStr(n) : n \in Names} \cup {JInt(1)}
         ELSE {JStr(UrlMount), JNull}

AnyMemberValue == UNION {MemberValues(k) : k \in MemberNames}

\* objects with any subset of the three members
DecoderObjs ==
    {JObj(f) : f \in {g \in UNION {[K -> AnyMemberValue] : K \in SUBSET MemberNames} :
                         \A k \in DOMAIN g : g[k] \in MemberValues(k)}}

DecoderElems ==
    PollObjs \cup {JNull, JInt(1), JObj(NoMembers),
                   JObj([listeners |-> JStr(NameDot), server_name |-> JStr(NameDot),
                         listenurl |-> JStr(UrlMount)])}

DecoderInputs ==
    DecoderObjs
    \cup {JArr(e) : e \in SeqUpTo(DecoderElems, MaxArrayLen)}
    \cup {JNull, JInt(1), JFrac, JStr(NameDot)}

DecoderInit ==
    /\ serverName = Empty
    /\ wait = SleepSeconds
    /\ legacyLabel = FALSE
    /\ clock = Empty
    /\ pc = "decode"
    /\ fetched = NoFetch
    /\ resp = <<>>
    /\ i = 1
    /\ listeners = NoGauges
    /\ logged = 0
    /\ spawned = <<>>
    /\ pushes = <<>>
    /\ repeatOf = NoRepeat
    /\ slept = 0
    /\ before = Absent
    /\ scraped = NoScrape
    /\ data \in DecoderInputs
    /\ out = NoOut
    /\ text = Empty
    /\ labels = NoLabels

\* main.go:52-65 called on data with an empty *sourcePtr
Decode ==
    /\ pc = "decode"
    /\ out' = SourceUnmarshalJSON(<<>>, data)
    /\ pc' = "decoded"
    /\ UNCHANGED <<fetched, resp, i, listeners, logged, spawned, slept, before, scraped>>
    /\ UNCHANGED <<flagVars, data, labelVars, pushVars>>

DecoderNext == Decode

DecoderSpec == DecoderInit /\ [][DecoderNext]_vars

\* C9: an array of stream objects decodes to the same records in the same
\* order and number; a single stream object decodes to exactly that record.
C9_BothShapesNormalize ==
    pc = "decoded" =>
        /\ IsStreamArray(data) =>
             /\ ~out.err
             /\ Len(out.source) = Len(data.e)
             /\ \A p \in 1..Len(data.e) : out.source[p] = RecordOf(data.e[p])
        /\ IsStreamObject(data) =>
             /\ ~out.err
             /\ out.source = <<RecordOf(data)>>

\* C9 witness: a decoded array of two different stream objects, kept in
\* their order.
C9_Witness ==
    /\ pc = "decoded"
    /\ IsStreamArray(data)
    /\ Len(data.e) = 2
    /\ data.e[1] # data.e[2]
    /\ out.source = <<RecordOf(data.e[1]), RecordOf(data.e[2])>>

\* C10: decoding succeeds exactly when the source is a stream object or an
\* array of stream objects; every other value fails and yields no record.
C10_DecodeIffKnownShape ==
    pc = "decoded" =>
        /\ ~out.err <=> IsKnownShape(data)
        /\ out.err => out.source = <<>>

(***************************************************************************)
(* The scrape path (main.go:155-156): promhttp's handler reads the gauges  *)
(* while the poll goroutine runs.  The scrapes of one key are followed.    *)
(***************************************************************************)
ScrapeKeys == {<<NameDot, urlToLabel(UrlMount)>>}

ScrapeInit ==
    /\ Init
    /\ wait = SleepSeconds
    /\ legacyLabel = FALSE

\* the key that main.go:116 is writing, between its two calls
WritingKey == MetricKey(resp[i], legacyLabel)

Scrape ==
    /\ pc # "panic"
    /\ \E k \in ScrapeKeys :
         scraped' = [key |-> k, read |-> ReadGauge(listeners, k),
                     during |-> pc = "set" /\ k = WritingKey]
    /\ UNCHANGED <<pollVars, flagVars, decoderVars, labelVars, pushVars>>

ScrapeNext == Next \/ Scrape

ScrapeSpec == ScrapeInit /\ [][ScrapeNext]_vars

Alphabet == {"a", "1", "_", ":", ".", " ", "/", "-"}

Texts == SeqUpTo(Alphabet, MaxLabelLen)

LabelInit ==
    /\ serverName = Empty
    /\ wait = SleepSeconds
    /\ legacyLabel \in BOOLEAN
    /\ clock = Empty
    /\ pc = "label"
    /\ fetched = NoFetch
    /\ resp = <<>>
    /\ i = 1
    /\ listeners = NoGauges
    /\ logged = 0
    /\ spawned = <<>>
    /\ pushes = <<>>
    /\ repeatOf = NoRepeat
    /\ slept = 0
    /\ before = Absent
    /\ scraped = NoScrape
    /\ data = NoData
    /\ out = NoOut
    /\ text \in Texts
    /\ labels = NoLabels

\* main.go:110-115 on the record, and makeLegacyLabel once and twice
Normalize ==
    /\ pc = "label"
    /\ labels' = [key |-> MetricKey(Stream(1, text, text), legacyLabel),
                  legacy |-> makeLegacyLabel(text),
                  twice |-> makeLegacyLabel(makeLegacyLabel(text))]
    /\ pc' = "labelled"
    /\ UNCHANGED <<fetched, resp, i, listeners, logged, spawned, slept, before, scraped>>
    /\ UNCHANGED <<flagVars, decoderVars, text, pushVars>>

LabelNext == Normalize

LabelSpec == LabelInit /\ [][LabelNext]_vars

HasSlash(t) == \E p \in 1..Len(t) : t[p] = "/"

\* C12: without the legacy flag the key of a record is its server name
\* unchanged and the text of its listen URL after the last '/': the whole
\* URL when it holds no '/', the empty string when it ends in '/'.
C12_KeyIsNameAndLastSegment ==
    (pc = "labelled" /\ ~legacyLabel) =>
        /\ labels.key[1] = text
        /\ ~HasSlash(text) => labels.key[2] = text
        /\ HasSlash(text) =>
             \E p \in 1..Len(text) :
                 /\ text[p] = "/"
                 /\ \A q \in (p + 1)..Len(text) : text[q] # "/"
                 /\ labels.key[2] = SubSeq(text, p + 1, Len(text))
        /\ (Len(text) > 0 /\ text[Len(text)] = "/") => labels.key[2] = Empty

\* C12 witness: a URL with two slashes whose label is what follows the last.
C12_Witness ==
    /\ pc = "labelled" /\ ~legacyLabel
    /\ Len(text) = 3
    /\ text[1] = "/" /\ text[2] = "/" /\ text[3] = "a"
    /\ labels.key = <<text, <<"a">>>>

\* the characters C13 speaks of, and the label with '.' and ' ' replaced
SafeOrDotOrSpace(t) ==
    \A p \in 1..Len(t) : t[p] \in Letters \cup Digits \cup {"_", ":", ".", " "}

Underscored(t) == [p \in 1..Len(t) |-> IF t[p] \in {".", " "} THEN "_" ELSE t[p]]

\* C13 as stated: the legacy transform of a label made only of letters,
\* digits, '_', ':', '.' and ' ' is the label with every '.' and ' '
\* replaced by '_', of the same length.
C13_SafeLabelKeepsLength ==
    (pc = "labelled" /\ SafeOrDotOrSpace(text)) =>
        /\ labels.legacy = Underscored(text)
        /\ Len(labels.legacy) = Len(text)

\* C13 as amended: the same, for the labels that do not begin with a digit.
C13_SafeLabelKeepsLengthUnlessDigitFirst ==
    (pc = "labelled" /\ SafeOrDotOrSpace(text)
        /\ (text = Empty \/ text[1] \notin Digits)) =>
        /\ labels.legacy = Underscored(text)
        /\ Len(labels.legacy) = Len(text)

\* C13 witness: a label with a dot, a space and a digit, none of them lost.
C13_Witness ==
    /\ pc = "labelled"
    /\ Len(text) = 3
    /\ text[1] = "." /\ text[2] = " " /\ text[3] = "1"
    /\ labels.legacy = <<"_", "_", "1">>

\* C19: the legacy transform of any string holds only letters, digits, '_'
\* and ':', does not begin with a digit, and is unchanged by the transform.
C19_LegacyLabelWellFormedIdempotent ==
    pc = "labelled" =>
        /\ \A p \in 1..Len(labels.legacy) :
             labels.legacy[p] \in Letters \cup Digits \cup {"_", ":"}
        /\ labels.legacy # Empty => labels.legacy[1] \notin Digits
        /\ labels.twice = labels.legacy

\* C19 witness: a string that begins with a digit and holds a character
\* outside the label alphabet, both dropped by the transform.
C19_Witness ==
    /\ pc = "labelled"
    /\ Len(text) = 3
    /\ text[1] = "1" /\ text[2] = "-" /\ text[3] = "a"
    /\ labels.legacy = <<"a">>
    /\ labels.twice = <<"a">>

---------------------------------------------------------------------------
(* The push goroutines.  Every "go publishVClock(clock, s.Listeners)" of a
   cycle runs beside the polling loop; a goroutine is "running" until its
   http.Get returns, then "sent" when the request left for the display, or
   "unsent" when http.Get returned an error without issuing one.            *)

\* the values of the flag -clock
Clocks == {Empty, <<"v">>}

\* http.Get on "http://<host>/?Command=SetMem=Listeners,<n>": with an empty
\* host the client refuses the URL before it opens a connection; with a host
\* the request leaves, or the connection cannot be made
HttpGetPushAnyHost(host) == {"sent", "unsent"}

HttpGetPush(host) == IF host = Empty THEN {"unsent"} ELSE {"sent", "unsent"}

\* the polls of the push specification: no response, a body that decodes
\* to nothing, and a 200 with one record or an array of records, whose
\* counts play no part in what becomes of a push
PushObjs == {StreamObj(1, n, UrlMount) : n \in Names}

PushOutcomes ==
    {TransportFailure, Response(200, JNull)}
    \cup {Response(200, StatusDoc(src)) :
            src \in PushObjs \cup {JArr(e) : e \in SeqUpTo(PushObjs, MaxStreams)}}

PushInit ==
    /\ serverName \in Filters
    /\ wait = SleepSeconds
    /\ legacyLabel = FALSE
    /\ clock \in Clocks
    /\ pc = "fetch"
    /\ fetched = NoFetch
    /\ resp = <<>>
    /\ i = 1
    /\ listeners = NoGauges
    /\ logged = 0
    /\ spawned = <<>>
    /\ pushes = <<>>
    /\ repeatOf = NoRepeat
    /\ slept = 0
    /\ before = NoGauges
    /\ scraped = NoScrape
    /\ data = NoData
    /\ out = NoOut
    /\ text = Empty
    /\ labels = NoLabels

\* one goroutine of this cycle comes to the end of publishVClock; a process
\* that has panicked has no goroutines left
PublishVClock ==
    /\ pc # "panic"
    /\ \E k \in 1..Len(pushes) :
        /\ pushes[k] = "running"
        /\ \E r \in HttpGetPush(clock) : pushes' = [pushes EXCEPT ![k] = r]
    /\ UNCHANGED <<pollVars, flagVars, decoderVars, labelVars, scraped, repeatOf>>

\* the fetch of a cycle beside the push goroutines
PushFetch ==
    /\ FetchFrom(PushOutcomes)
    /\ repeatOf' = NoRepeat

PushNext ==
    \/ PushFetch
    \/ FilterSkip
    \/ GetGauge
    \/ SetGauge
    \/ RangeDone
    \/ SleepStart
    \/ SleepEnd
    \/ PublishVClock

PushSpec == PushInit /\ [][PushNext]_vars

C15_LoopIgnoresPushes ==
    /\ [](pc # "panic" => ENABLED Next)
    /\ [](Len(pushes) = Len(spawned))
    /\ [][(Len(pushes') = Len(pushes) /\ pushes' # pushes) =>
            /\ UNCHANGED <<pollVars, scraped>>
            /\ \A k \in 1..Len(pushes) :
                 pushes[k] # "running" => pushes'[k] = pushes[k]]_vars

\* C15 witness: the loop has gone through its sleep and is about to fetch
\* again while one push of the cycle has failed and the other has not
\* returned yet.
C15_Witness ==
    /\ pc = "fetch"
    /\ slept = SleepSeconds
    /\ pushes = <<"unsent", "running">>
    /\ logged = 0

---------------------------------------------------------------------------
(* Repeated polls.  The server may answer a poll with what it answered the
   poll before; repeatOf then keeps the registry as the earlier cycle left
   it.                                                                      *)

RepeatInit == Init /\ wait = SleepSeconds

\* the fetch of a cycle returns the outcome of the previous fetch again
Refetch ==
    /\ fetched # NoFetch
    /\ FetchFrom({fetched})
    /\ repeatOf' = [on |-> TRUE, reg |-> listeners]

RepeatNext == Next \/ Refetch

RepeatSpec == RepeatInit /\ [][RepeatNext]_vars

\* C20: when a cycle over the snapshot of the cycle before it is over, the
\* registry is what it was when that earlier cycle ended: no key was added
\* and no value changed.
C20_RepeatedPollChangesNothing ==
    (CycleOver /\ repeatOf.on) => listeners = repeatOf.reg

\* C20 witness: a snapshot of two records, both written, processed a second
\* time; the registry holds both counts as after the first time.
C20_Witness ==
    /\ CycleOver
    /\ repeatOf.on
    /\ Len(resp) = 2
    /\ Len(spawned) = 2
    /\ resp[1].Listeners # resp[2].Listeners
    /\ \A p \in 1..2 :
         ReadGauge(listeners, MetricKey(resp[p], legacyLabel))
           = Present(Float64(resp[p].Listeners))

====
